---------------------------- MODULE Spec2Model ----------------------------
(***************************************************************************)
(* A model of src/__init__.py (TimeSkill): the location resolution engine  *)
(* (get_timezone) and the display arbitration done by update_display and   *)
(* the query handlers.                                                     *)
(*                                                                         *)
(* Strings are TLA+ strings, taken apart with Len, SubSeq and \o, so the   *)
(* lower-casing, replacing, splitting, reversing and joining that the code *)
(* does are computed, character by character.  A similarity score is the   *)
(* exact rational <<2*M, T>> that difflib's SequenceMatcher.ratio() turns  *)
(* into a float; comparisons are done by cross-multiplication.             *)
(***************************************************************************)
EXTENDS Integers, Sequences, FiniteSets, TLC

VARIABLES
    all_timezones,   \* pytz.all_timezones: the catalog, in enumeration order
    timezones,       \* translate_namedvalues("timezone.value"): <<key, value>> pairs
    locale,          \* argument of the last get_timezone call
    response,        \* what ask_yesno would answer in that call
    result,          \* its return value (NONE, RAISE or an identifier)
    asked,           \* the zone_name phrases it passed to ask_yesno, in order
    best,            \* its local "best" when it returned: <<>> or <<[pct, name]>>
    displayed_time,  \* self.displayed_time: <<>> (None) or <<text>>
    show_time,       \* self.settings["show_time"]
    answering_query, \* self.answering_query
    display_tz,      \* self.display_tz: NONE or an identifier
    active,          \* enclosure.display_manager.get_active()
    gui_time_string, \* self.gui['time_string']: <<>> or <<text>>
    now,             \* the wall clock, in display minutes
    flow,            \* the query handler in flight: [pc, location]
    calls,           \* renderer/registry calls issued by the last step
    lastOp,          \* which operation the last step was
    platform,        \* self.platform
    tick,            \* where a running update_display stands: "idle" or "passed"
    date_flow,       \* the handle_query_date in flight: [pc]
    request,         \* history: what the last handler was asked and found
    lost,            \* history: another skill took the display after an idle draw
    window           \* history: the last query window, [fresh, before]

resolveVars == <<locale, response, result, asked, best>>
envVars     == <<all_timezones, timezones>>
displayVars == <<displayed_time, show_time, answering_query, display_tz,
                 active, gui_time_string, now, flow, calls>>
threadVars  == <<platform, tick, date_flow>>
historyVars == <<request, lost, window>>
vars == <<all_timezones, timezones, locale, response, result, asked, best,
          displayed_time, show_time, answering_query, display_tz, active,
          gui_time_string, now, flow, calls, lastOp,
          platform, tick, date_flow, request, lost, window>>

NONE  == "None"
RAISE == "UnknownTimeZoneError"

-----------------------------------------------------------------------------
(* Python string methods used by the code *)

UpperAlpha == "ABCDEFGHIJKLMNOPQRSTUVWXYZ"
LowerAlpha == "abcdefghijklmnopqrstuvwxyz"

CharAt(s, i) == SubSeq(s, i, i)

\* the letter tables of str.lower(), str.upper() and the classes [a-z], [A-Z]
ToLower == [c \in {CharAt(UpperAlpha, i) : i \in 1..Len(UpperAlpha)} |->
               CharAt(LowerAlpha, CHOOSE i \in 1..Len(UpperAlpha) : CharAt(UpperAlpha, i) = c)]
ToUpper == [c \in {CharAt(LowerAlpha, i) : i \in 1..Len(LowerAlpha)} |->
               CharAt(UpperAlpha, CHOOSE i \in 1..Len(LowerAlpha) : CharAt(LowerAlpha, i) = c)]

IsUpper(c) == c \in DOMAIN ToLower
IsLower(c) == c \in DOMAIN ToUpper

LowerChar(c) == IF IsUpper(c) THEN ToLower[c] ELSE c
UpperChar(c) == IF IsLower(c) THEN ToUpper[c] ELSE c

MapChar(c, kind) ==
    CASE kind = "lower" -> LowerChar(c)
      [] kind = "upper" -> UpperChar(c)
      [] kind = "underscore" -> IF c = "_" THEN " " ELSE c
      [] OTHER -> IF c = " " THEN "_" ELSE c

RECURSIVE MapChars(_, _, _)
\* s with every character from position i on mapped: kind "lower", "upper",
\* or "_" -> " " ("underscore"), " " -> "_" ("space")
MapChars(s, i, kind) ==
    IF i > Len(s) THEN ""
    ELSE MapChar(CharAt(s, i), kind) \o MapChars(s, i + 1, kind)

\* str.lower()
Lower(s) == MapChars(s, 1, "lower")
\* str.upper()
Upper(s) == MapChars(s, 1, "upper")
\* str.replace("_", " ")
ReplaceUnderscore(s) == MapChars(s, 1, "underscore")
\* str.replace(" ", "_")
ReplaceSpace(s) == MapChars(s, 1, "space")

RECURSIVE SplitFrom(_, _, _, _)
\* str.split(sep) for a one-character sep: the pieces of s from position i
\* on, cur being the piece under construction
SplitFrom(s, i, cur, sep) ==
    IF i > Len(s) THEN <<cur>>
    ELSE IF CharAt(s, i) = sep
         THEN <<cur>> \o SplitFrom(s, i + 1, "", sep)
         ELSE SplitFrom(s, i + 1, cur \o CharAt(s, i), sep)

Split(s, sep) == SplitFrom(s, 1, "", sep)

RECURSIVE Join(_, _)
\* sep.join(parts)
Join(parts, sep) ==
    IF Len(parts) = 0 THEN ""
    ELSE IF Len(parts) = 1 THEN parts[1]
    ELSE parts[1] \o sep \o Join(Tail(parts), sep)

\* list.reverse()
Reverse(parts) == [i \in 1..Len(parts) |-> parts[Len(parts) + 1 - i]]

RECURSIVE LStrip(_)
LStrip(s) == IF Len(s) > 0 /\ CharAt(s, 1) = " " THEN LStrip(SubSeq(s, 2, Len(s))) ELSE s
RECURSIVE RStrip(_)
RStrip(s) == IF Len(s) > 0 /\ CharAt(s, Len(s)) = " " THEN RStrip(SubSeq(s, 1, Len(s) - 1)) ELSE s
\* str.strip()
Strip(s) == RStrip(LStrip(s))

RECURSIVE SplitCamel(_, _)
\* re.sub(r"([a-z])([A-Z])", r"\g<1> \g<2>", s) from position i on: a match
\* consumes both characters, and the scan resumes after them
SplitCamel(s, i) ==
    IF i > Len(s) THEN ""
    ELSE IF i < Len(s) /\ IsLower(CharAt(s, i)) /\ IsUpper(CharAt(s, i + 1))
         THEN CharAt(s, i) \o " " \o CharAt(s, i + 1) \o SplitCamel(s, i + 2)
         ELSE CharAt(s, i) \o SplitCamel(s, i + 1)

-----------------------------------------------------------------------------
(* lingua_franca.parse.fuzzy_match(x, against):                            *)
(*     SequenceMatcher(None, x, against).ratio()                           *)

RECURSIVE CommonRun(_, _, _, _, _, _)
\* length of the longest common run of a[i..ahi] and b[j..bhi] starting at i, j
CommonRun(a, b, i, j, ahi, bhi) ==
    IF i > ahi \/ j > bhi \/ CharAt(a, i) # CharAt(b, j) THEN 0
    ELSE 1 + CommonRun(a, b, i + 1, j + 1, ahi, bhi)

\* the blocks <<i, j, size>> of a[alo..ahi] and b[blo..bhi], one per start
Runs(a, b, alo, ahi, blo, bhi) ==
    {<<i, j, CommonRun(a, b, i, j, ahi, bhi)>> : i \in alo..ahi, j \in blo..bhi}

Least(ns)    == CHOOSE n \in ns : \A m \in ns : n <= m
Greatest(ns) == CHOOSE n \in ns : \A m \in ns : m <= n

\* the blocks whose field f is v
Having(runs, f, v) == {r \in runs : r[f] = v}

\* the longest of the blocks
Longest(runs) == Having(runs, 3, Greatest({r[3] : r \in runs}))

\* the blocks starting earliest in a
EarliestInA(runs) == Having(runs, 1, Least({r[1] : r \in runs}))

\* the block starting earliest in a and, among those, earliest in b
Earliest(runs) == CHOOSE r \in EarliestInA(runs) : \A q \in EarliestInA(runs) : r[2] <= q[2]

\* SequenceMatcher.find_longest_match over a[alo..ahi], b[blo..bhi] (no junk):
\* the longest block, the one starting earliest in a, then earliest in b
LongestMatch(a, b, alo, ahi, blo, bhi) == Earliest(Longest(Runs(a, b, alo, ahi, blo, bhi)))

RECURSIVE MatchedChars(_, _, _, _, _, _)
RECURSIVE MatchedAround(_, _, _, _, _, _, _)
\* SequenceMatcher.get_matching_blocks: the sum of the block sizes
MatchedChars(a, b, alo, ahi, blo, bhi) ==
    IF alo > ahi \/ blo > bhi THEN 0
    ELSE MatchedAround(a, b, alo, ahi, blo, bhi, LongestMatch(a, b, alo, ahi, blo, bhi))

\* the block m, and the matching blocks to its left and to its right
MatchedAround(a, b, alo, ahi, blo, bhi, m) ==
    IF m[3] = 0 THEN 0
    ELSE m[3]
         + MatchedChars(a, b, alo, m[1] - 1, blo, m[2] - 1)
         + MatchedChars(a, b, m[1] + m[3], ahi, m[2] + m[3], bhi)

\* ratio(): 2.0 * M / T, and 1.0 when both strings are empty
fuzzy_match(x, against) ==
    IF Len(x) + Len(against) = 0 THEN <<1, 1>>
    ELSE <<2 * MatchedChars(x, against, 1, Len(x), 1, Len(against)), Len(x) + Len(against)>>

\* p >= q, p > q on scores
ScoreGeq(p, q) == p[1] * q[2] >= q[1] * p[2]
ScoreGt(p, q)  == p[1] * q[2] > q[1] * p[2]
ScoreMax(p, q) == IF ScoreGeq(p, q) THEN p ELSE q

-----------------------------------------------------------------------------
(* The collaborators' data.  The catalog is a slice of pytz.all_timezones  *)
(* in pytz's (sorted) order; the known places are entries of the astral    *)
(* geocoder; the alias tables are contents of the timezone.value resource. *)

PytzCatalog ==
    << "America/Denver", "America/North_Dakota/Center",
       "America/North_Dakota/New_Salem", "Asia/Shanghai", "Australia/Melbourne",
       "Australia/Sydney", "Australia/Victoria", "Canada/Eastern",
       "Chile/EasterIsland", "Cuba", "Indian/Mahe", "US/Eastern" >>

SmallCatalog == << "America/North_Dakota/Center", "Australia/Sydney" >>

Catalogs == { <<>>, SmallCatalog, PytzCatalog }

\* astral's geocoder: location name (lower case, "_" for " ") and its timezone
KnownPlaces == << <<"victoria", "Indian/Mahe">>, <<"denver", "US/Mountain">> >>

AliasGood ==
    << <<"china", " Asia/Shanghai ">>, <<"Victoria", "Australia/Melbourne">>,
       <<"denver", "America/Denver">> >>

\* the comment's own example value, "china = GMT+8", names no pytz timezone
AliasMalformed == << <<"mars", "GMT+8">> >> \o AliasGood

AliasTables == { <<>>, AliasGood, AliasMalformed }

Queries ==
    { "sydney", "north dakota", "eastern", "east", "island", "denver colorado",
      "zzz", "", "china", " china ", "CHINA", "victoria", "denver",
      "America/Denver", "cuba", " Cuba ", "mars", "utc", "timbuktu", "quux" }

\* ask_yesno returns "yes", "no", or None when the answer was neither
Responses == { "yes", "no", NONE }

-----------------------------------------------------------------------------
(* get_timezone *)

\* self.astral[locale].timezone: the geocoder lower-cases the key and
\* replaces its spaces by underscores; KeyError (RAISE) for an unknown place
FirstValue(pairs, hit) == IF hit = {} THEN RAISE ELSE pairs[Least(hit)][2]

astral_timezone(loc) ==
    FirstValue(KnownPlaces,
               {i \in 1..Len(KnownPlaces) : KnownPlaces[i][1] = ReplaceSpace(Lower(loc))})

\* pytz.timezone(zone) against the catalog cat: "UTC" in any case is utc;
\* otherwise the lookup is case-insensitive and yields the catalog's
\* spelling; UnknownTimeZoneError (RAISE) when the catalog has no such zone
CatalogEntry(cat, hit) == IF hit = {} THEN RAISE ELSE cat[Least(hit)]

pytz_timezone(cat, zone) ==
    IF zone = RAISE THEN RAISE
    ELSE IF Upper(zone) = "UTC" THEN "UTC"
    ELSE CatalogEntry(cat, {i \in 1..Len(cat) : Lower(cat[i]) = Lower(zone)})

\* lines 117-123: pct of a name split into its normalized segments
ScoreOf(normalized, target) ==
    IF Len(normalized) = 1 THEN fuzzy_match(normalized[1], target)
    ELSE ScoreMax(fuzzy_match(normalized[2], target),
            ScoreMax(fuzzy_match(normalized[Len(normalized) - 1] \o " "
                                    \o normalized[Len(normalized)], target),
                     fuzzy_match(normalized[Len(normalized)] \o " "
                                    \o normalized[Len(normalized) - 1], target)))

\* line 116
Normalized(name) == Split(ReplaceUnderscore(Lower(name)), "/")

\* lines 116-123: the score of one catalog name against the target
Score(name, target) == ScoreOf(Normalized(name), target)

CatalogNames == UNION {{c[i] : i \in 1..Len(c)} : c \in Catalogs}
Targets == {Lower(q) : q \in Queries}

\* every score the scans of this model compute, computed once
ScoreMemo == [name \in CatalogNames |-> [target \in Targets |-> Score(name, target)]]

\* a variant of Replace that keeps the first of equal scores (pct > best[0])
ReplaceFirstWins(b, pct, name) ==
    IF b = <<>> \/ ScoreGt(pct, b[1].pct) THEN <<[pct |-> pct, name |-> name]>> ELSE b

\* lines 124-125: best is replaced when pct >= best[0]; b is best, <<>> for None
Replace(b, pct, name) ==
    IF b = <<>> \/ ScoreGeq(pct, b[1].pct) THEN <<[pct |-> pct, name |-> name]>> ELSE b

\* lines 116-125: one iteration of the scan
ScanStep(b, name, target) == Replace(b, ScoreMemo[name][target], name)

RECURSIVE ScanFrom(_, _, _, _)
\* lines 114-125: the loop over pytz.all_timezones from index i on
ScanFrom(cat, i, b, target) ==
    IF i > Len(cat) THEN b
    ELSE ScanFrom(cat, i + 1, ScanStep(b, cat[i], target), target)

\* the thresholds 0.8 and 0.3 of lines 126 and 129
Solid == <<8, 10>>
Maybe == <<3, 10>>

\* a variant of Speakable without the re.sub of line 131
SpeakableNoCamel(name) ==
    Join(Reverse(Split(ReplaceUnderscore(name), "/")), " ")

\* lines 131-135: the speakable version of a catalog name
Speakable(name) ==
    Join(Reverse(Split(ReplaceUnderscore(SplitCamel(name, 1)), "/")), " ")

Returned(tz, phrases, b) == [result |-> tz, asked |-> phrases, best |-> b]

\* lines 136-137: ask_yesno, and the candidate when the answer is "yes"
Confirm(cat, b, resp) ==
    Returned(IF resp = "yes" THEN pytz_timezone(cat, b[1].name) ELSE NONE,
             <<Speakable(b[1].name)>>, b)

\* a variant of Decide without the solid choice of lines 126-128
DecideNeverSolid(cat, b, resp) ==
    IF b # <<>> /\ ScoreGt(b[1].pct, Maybe) THEN Confirm(cat, b, resp)
    ELSE Returned(NONE, <<>>, b)

\* a variant of Decide without the 0.3 threshold of line 129
DecideAsksLow(cat, b, resp) ==
    IF b # <<>> /\ ScoreGt(b[1].pct, Solid) THEN Returned(pytz_timezone(cat, b[1].name), <<>>, b)
    ELSE IF b # <<>> THEN Confirm(cat, b, resp)
    ELSE Returned(NONE, <<>>, b)

\* lines 126-139: the decision on the best candidate
Decide(cat, b, resp) ==
    IF b # <<>> /\ ScoreGt(b[1].pct, Solid) THEN Returned(pytz_timezone(cat, b[1].name), <<>>, b)
    ELSE IF b # <<>> /\ ScoreGt(b[1].pct, Maybe) THEN Confirm(cat, b, resp)
    ELSE Returned(NONE, <<>>, b)

\* lines 100-104: the alias keys equal to the locale, lower case on both sides
AliasHits(aliases, loc) ==
    {i \in 1..Len(aliases) : Lower(loc) = Lower(aliases[i][1])}

\* a variant of AliasValue without the strip() of line 104
AliasValueNoStrip(cat, aliases, hit) ==
    IF hit = {} THEN NONE ELSE pytz_timezone(cat, aliases[Least(hit)][2])

\* line 104: pytz.timezone of the first such key's value, stripped; its
\* error is not caught
AliasValue(cat, aliases, hit) ==
    IF hit = {} THEN NONE ELSE pytz_timezone(cat, Strip(aliases[Least(hit)][2]))

AliasLookup(cat, aliases, loc) == AliasValue(cat, aliases, AliasHits(aliases, loc))

\* a variant of FirstSuccess that consults the alias table before the places
FirstSuccessAliasFirst(cat, loc, resp, known, exact, alias) ==
    IF alias # NONE THEN Returned(alias, <<>>, <<>>)
    ELSE IF known # RAISE THEN Returned(known, <<>>, <<>>)
    ELSE IF exact # RAISE THEN Returned(exact, <<>>, <<>>)
    ELSE Decide(cat, ScanFrom(cat, 1, <<>>, Lower(loc)), resp)

\* lines 85-139 given what the first three lookups yield; the first that
\* succeeds returns, and the scan runs only when none does
FirstSuccess(cat, loc, resp, known, exact, alias) ==
    IF known # RAISE THEN Returned(known, <<>>, <<>>)
    ELSE IF exact # RAISE THEN Returned(exact, <<>>, <<>>)
    ELSE IF alias # NONE THEN Returned(alias, <<>>, <<>>)
    ELSE Decide(cat, ScanFrom(cat, 1, <<>>, Lower(loc)), resp)

\* lines 84-139.  The result is NONE, RAISE (an exception left get_timezone)
\* or the timezone's identifier; asked lists the phrases given to ask_yesno
get_timezone(cat, aliases, loc, resp) ==
    FirstSuccess(cat, loc, resp,
                 pytz_timezone(cat, astral_timezone(loc)),
                 pytz_timezone(cat, loc),
                 AliasLookup(cat, aliases, loc))

\* get_timezone on every input of this model, computed once
ResolveMemo ==
    [cat \in Catalogs |-> [aliases \in AliasTables |-> [loc \in Queries |->
        [resp \in Responses |-> get_timezone(cat, aliases, loc, resp)]]]]

-----------------------------------------------------------------------------
(* The resolution engine on its own: the environment is drawn once, then   *)
(* get_timezone is called on any query with any answer to its question.    *)

InitDisplay ==
    /\ displayed_time = <<>>
    /\ show_time = FALSE
    /\ answering_query = FALSE
    /\ display_tz = NONE
    /\ active = ""
    /\ gui_time_string = <<>>
    /\ now = 0
    /\ flow = [pc |-> "idle", location |-> NONE]
    /\ calls = <<>>

InitCall ==
    /\ locale = NONE
    /\ response = NONE
    /\ result = NONE
    /\ asked = <<>>
    /\ best = <<>>

\* self.platform as display() and handle_query_date test it
Platforms == { "mycroft_mark_1", "mycroft_mark_2" }

\* no handler has run yet
NoRequest == [location |-> NONE, found |-> <<>>, owner |-> ""]
NoWindow  == [fresh |-> "no", before |-> <<>>]

InitThreads ==
    /\ tick = "idle"
    /\ date_flow = [pc |-> "idle"]

InitHistory ==
    /\ request = NoRequest
    /\ lost = FALSE
    /\ window = NoWindow

\* a step of the environment, which no handler and no update_display takes
Elsewhere ==
    /\ request' = NoRequest
    /\ UNCHANGED <<threadVars, lost, window>>

InitResolve ==
    /\ all_timezones \in Catalogs
    /\ timezones \in AliasTables
    /\ InitCall
    /\ InitDisplay
    /\ InitThreads
    /\ InitHistory
    /\ platform = "mycroft_mark_1"
    /\ lastOp = "init"

Record(q, r, out) ==
    /\ locale' = q
    /\ response' = r
    /\ result' = out.result
    /\ asked' = out.asked
    /\ best' = out.best

CallGetTimezone ==
    \E q \in Queries, r \in Responses :
        /\ Record(q, r, ResolveMemo[all_timezones][timezones][q][r])
        /\ lastOp' = "get_timezone"
        /\ UNCHANGED <<envVars, displayVars, threadVars, historyVars>>

NextResolve == CallGetTimezone

SpecResolve == InitResolve /\ [][NextResolve]_vars

-----------------------------------------------------------------------------
(* The display arbitration: update_display, the handlers that share the    *)
(* display with it, and the environment (clock, registry, settings).       *)

\* how many distinct clock-face texts the model's wall clock runs through
ClockSize == 2

\* self.location_timezone, the device's configured timezone code
LocationTimezone == "America/Denver"

\* what an utterance's Location group can hold; NONE when it has none
Locations == { NONE, "sydney", "island", "zzz" }

\* what the user answers a handler's confirmation question; any answer
\* other than "yes" has the effect of "no"
Answers == { "yes", "no" }

\* display_manager.get_active(): "" when the display is free
Owners == { "", "TimeSkill", "OtherSkill" }

\* dtUTC.astimezone(tz): the zone's shift of the clock face
UtcOffset(tz) ==
    CASE tz = "Australia/Sydney" -> 1
      [] tz = "Chile/EasterIsland" -> 2
      [] OTHER -> 0

\* nice_time(dtUTC.astimezone(tz), speech=False); <<>> is None
nice_time(tz) == IF tz = NONE THEN <<>> ELSE <<(now + UtcOffset(tz)) % ClockSize>>

Draw(text) == [op |-> "draw", text |-> text]
Erase      == [op |-> "erase", text |-> <<>>]
Release    == [op |-> "release", text |-> <<>>]

\* self.get_timezone(loc) in the running skill
Resolved(loc, resp) == ResolveMemo[all_timezones][timezones][loc][resp].result

\* lines 141-156: the timezone get_local_datetime converts to; dtz is
\* self.display_tz and resp answers a confirmation question
local_timezone(location, dtz, resp) ==
    IF location # NONE THEN Resolved(location, resp)
    ELSE IF dtz # NONE THEN dtz
    ELSE Resolved(LocationTimezone, resp)

\* lines 166-173: the display text for a location, <<>> for None
get_display_current_time(location, dtz, resp) == nice_time(local_timezone(location, dtz, resp))

\* lines 191-195: display() draws only a text that is not None
display(display_time) == IF display_time # <<>> THEN <<Draw(display_time)>> ELSE <<>>

\* lines 257-260
is_display_idle == active = ""

\* what one run of update_display leaves behind
Out(dt, gui, act, cs) ==
    [displayed_time |-> dt, gui_time_string |-> gui, active |-> act, calls |-> cs]

\* a variant of show_idle_time without the assignment of line 277
show_idle_time_forgets(force, current_time) ==
    IF force \/ is_display_idle
    THEN IF displayed_time # current_time
         THEN Out(displayed_time, current_time, "", display(current_time) \o <<Release>>)
         ELSE Out(displayed_time, current_time, active, <<>>)
    ELSE Out(<<>>, current_time, active, <<>>)

\* a variant of show_idle_time without the assignment of line 282
show_idle_time_keeps_cache(force, current_time) ==
    IF force \/ is_display_idle
    THEN IF displayed_time # current_time
         THEN Out(current_time, current_time, "", display(current_time) \o <<Release>>)
         ELSE Out(displayed_time, current_time, active, <<>>)
    ELSE Out(displayed_time, current_time, active, <<>>)

\* a variant of show_idle_time without the force test of line 274
show_idle_time_unforced(force, current_time) ==
    IF is_display_idle
    THEN IF displayed_time # current_time
         THEN Out(current_time, current_time, "", display(current_time) \o <<Release>>)
         ELSE Out(displayed_time, current_time, active, <<>>)
    ELSE Out(<<>>, current_time, active, <<>>)

\* lines 273-282: the user wants the time shown while idle
show_idle_time(force, current_time) ==
    IF force \/ is_display_idle
    THEN IF displayed_time # current_time
         THEN Out(current_time, current_time, "", display(current_time) \o <<Release>>)
         ELSE Out(displayed_time, current_time, active, <<>>)
    ELSE Out(<<>>, current_time, active, <<>>)

\* a variant of hide_idle_time without the test of line 286
hide_idle_time_erases_always(current_time) ==
    IF displayed_time # <<>>
    THEN Out(<<>>, current_time, "", <<Erase, Release>>)
    ELSE Out(displayed_time, current_time, active, <<>>)

\* lines 284-291: the time display is not wanted
hide_idle_time(current_time) ==
    IF displayed_time # <<>>
    THEN IF is_display_idle
         THEN Out(<<>>, current_time, "", <<Erase, Release>>)
         ELSE Out(<<>>, current_time, active, <<>>)
    ELSE Out(displayed_time, current_time, active, <<>>)

\* lines 268-291: update_display past its answering_query guard
update_body(force, st, current_time) ==
    IF st THEN show_idle_time(force, current_time) ELSE hide_idle_time(current_time)

\* a variant of update_display without the guard of lines 265-266
update_display_unguarded(force, st, dtz) ==
    update_body(force, st, get_display_current_time(NONE, dtz, NONE))

\* lines 262-291: update_display(force) with settings["show_time"] = st and
\* self.display_tz = dtz
update_display(force, st, dtz) ==
    IF answering_query THEN Out(displayed_time, gui_time_string, active, <<>>)
    ELSE update_body(force, st, get_display_current_time(NONE, dtz, NONE))

Apply(out) ==
    /\ displayed_time' = out.displayed_time
    /\ gui_time_string' = out.gui_time_string
    /\ active' = out.active
    /\ calls' = out.calls

\* history after a run of update_display(force) with settings["show_time"]
\* = st that found the guard of line 265 held or not: a run that reaches the
\* display ends what was lost, and the first run that shows the idle time
\* after a window is its redraw
Redrawn(force, st) ==
    IF window.fresh = "yes" /\ st /\ (force \/ is_display_idle)
    THEN [window EXCEPT !.fresh = "redrawn"]
    ELSE IF window.fresh = "redrawn" THEN NoWindow ELSE window

Ran(force, st, held) ==
    /\ lost' = IF ~held /\ (force \/ is_display_idle) THEN FALSE ELSE lost
    /\ window' = IF held THEN window ELSE Redrawn(force, st)

\* the repeating event of initialize(), lines 48-52: update_display()
Tick ==
    /\ Apply(update_display(FALSE, show_time, display_tz))
    /\ lastOp' = "update_display"
    /\ Ran(FALSE, show_time, answering_query)
    /\ request' = NoRequest
    /\ UNCHANGED <<envVars, resolveVars, show_time, answering_query, display_tz,
                   now, flow, threadVars>>

\* lines 324-334 and 350-360 given the spoken time and the text to show;
\* pc is where the handler sleeps
StartFlowAs(pc, location, spoken, shown) ==
    /\ request' = [location |-> location,
                   found |-> IF spoken = <<>> THEN <<FALSE>> ELSE <<TRUE, shown # <<>>>>,
                   owner |-> active]
    /\ IF spoken = <<>>
       THEN /\ calls' = <<>>
            /\ UNCHANGED <<answering_query, flow, window>>
       ELSE /\ answering_query' = TRUE
            /\ calls' = display(shown)
            /\ flow' = [pc |-> pc, location |-> location]
            /\ window' = [fresh |-> "no", before |-> displayed_time]

StartFlow(location, spoken, shown) == StartFlowAs("dwell", location, spoken, shown)

\* lines 320-334: handle_query_time up to its sleep; r1 answers the
\* confirmation of get_spoken_current_time, r2 that of the display text
QueryTimeStart ==
    \E location \in Locations, r1 \in Answers, r2 \in Answers :
        /\ flow.pc = "idle"
        /\ StartFlow(location, get_display_current_time(location, display_tz, r1),
                     get_display_current_time(location, display_tz, r2))
        /\ lastOp' = "handle_query_time"
        /\ UNCHANGED <<envVars, resolveVars, displayed_time, show_time, display_tz,
                       active, gui_time_string, now, threadVars, lost>>

\* a variant of QueryTimeEnd without the assignment of line 339
QueryTimeEndKeepsText ==
    /\ flow.pc = "dwell"
    /\ calls' = <<Erase>>
    /\ answering_query' = FALSE
    /\ flow' = [pc |-> "idle", location |-> NONE]
    /\ lastOp' = "handle_query_time_end"
    /\ window' = [window EXCEPT !.fresh = "yes"]
    /\ request' = NoRequest
    /\ UNCHANGED <<envVars, resolveVars, displayed_time, show_time, display_tz, active,
                   gui_time_string, now, threadVars, lost>>

\* lines 335-339: handle_query_time after its sleep
QueryTimeEnd ==
    /\ flow.pc = "dwell"
    /\ calls' = <<Erase>>
    /\ answering_query' = FALSE
    /\ displayed_time' = <<>>
    /\ flow' = [pc |-> "idle", location |-> NONE]
    /\ lastOp' = "handle_query_time_end"
    /\ window' = [window EXCEPT !.fresh = "yes"]
    /\ request' = NoRequest
    /\ UNCHANGED <<envVars, resolveVars, show_time, display_tz, active,
                   gui_time_string, now, threadVars, lost>>

\* get_display_current_time(location, dt) for the dt of the utterance, a
\* minute ahead of now
LaterText(text) ==
    IF text = <<>> THEN <<>> ELSE <<(text[1] + 1) % ClockSize>>

\* lines 342-360: handle_query_future_time up to its sleep, for a time
\* extracted from the utterance
QueryFutureTimeStart ==
    \E location \in Locations, r1 \in Answers, r2 \in Answers :
        /\ flow.pc = "idle"
        /\ StartFlowAs("dwell_future", location,
                       LaterText(get_display_current_time(location, display_tz, r1)),
                       LaterText(get_display_current_time(location, display_tz, r2)))
        /\ lastOp' = "handle_query_future_time"
        /\ UNCHANGED <<envVars, resolveVars, displayed_time, show_time, display_tz,
                       active, gui_time_string, now, threadVars, lost>>

\* lines 361-365: handle_query_future_time after its sleep
QueryFutureTimeEnd ==
    /\ flow.pc = "dwell_future"
    /\ calls' = <<Erase>>
    /\ answering_query' = FALSE
    /\ displayed_time' = <<>>
    /\ flow' = [pc |-> "idle", location |-> NONE]
    /\ lastOp' = "handle_query_future_time_end"
    /\ window' = [window EXCEPT !.fresh = "yes"]
    /\ request' = NoRequest
    /\ UNCHANGED <<envVars, resolveVars, show_time, display_tz, active,
                   gui_time_string, now, threadVars, lost>>

\* what show_date puts on the display, a text that is no clock face
DateText == <<ClockSize>>

\* lines 416-432 given the timezone found for the location: the handler
\* returns when the lookup failed, and shows the date otherwise
ShowDateIn(location, tz) ==
    /\ request' = [location |-> location,
                   found |-> IF location = NONE THEN <<>> ELSE <<tz # NONE>>,
                   owner |-> active]
    /\ IF location # NONE /\ tz = NONE
       THEN /\ calls' = <<>>
            /\ UNCHANGED <<answering_query, date_flow, window>>
       ELSE /\ answering_query' = TRUE
            /\ calls' = <<Draw(DateText)>>
            /\ date_flow' = [pc |-> "dwell"]
            /\ window' = [fresh |-> "no", before |-> displayed_time]

\* lines 392-433: handle_query_date up to its sleep
QueryDateStart ==
    \E location \in Locations, r \in Answers :
        /\ date_flow.pc = "idle"
        /\ ShowDateIn(location, IF location = NONE THEN NONE ELSE Resolved(location, r))
        /\ lastOp' = "handle_query_date"
        /\ UNCHANGED <<envVars, resolveVars, displayed_time, show_time, display_tz,
                       active, gui_time_string, now, flow, platform, tick, lost>>

\* lines 434-439: handle_query_date after its sleep; the mouth is reset on
\* a Mark 1 only
QueryDateEnd ==
    /\ date_flow.pc = "dwell"
    /\ calls' = IF platform = "mycroft_mark_1" THEN <<Erase>> ELSE <<>>
    /\ answering_query' = FALSE
    /\ displayed_time' = <<>>
    /\ date_flow' = [pc |-> "idle"]
    /\ lastOp' = "handle_query_date_end"
    /\ window' = [window EXCEPT !.fresh = "yes"]
    /\ request' = NoRequest
    /\ UNCHANGED <<envVars, resolveVars, show_time, display_tz, active,
                   gui_time_string, now, flow, platform, tick, lost>>

\* an exception leaves handle_query_time or handle_query_future_time between
\* lines 332-337 (358-363): nothing after the failing call is executed
TimeFlowFails ==
    /\ flow.pc \in {"dwell", "dwell_future"}
    /\ flow' = [pc |-> "idle", location |-> NONE]
    /\ calls' = <<>>
    /\ lastOp' = "handler_failed"
    /\ request' = NoRequest
    /\ UNCHANGED <<envVars, resolveVars, displayed_time, show_time, answering_query,
                   display_tz, active, gui_time_string, now, threadVars, lost, window>>

\* an exception leaves handle_query_date between lines 432-437
DateFlowFails ==
    /\ date_flow.pc = "dwell"
    /\ date_flow' = [pc |-> "idle"]
    /\ calls' = <<>>
    /\ lastOp' = "handler_failed"
    /\ request' = NoRequest
    /\ UNCHANGED <<envVars, resolveVars, displayed_time, show_time, answering_query,
                   display_tz, active, gui_time_string, now, flow, platform, tick,
                   lost, window>>

\* lines 373-385 given the timezone found for the location
ShowTimeIn(location, tz) ==
    /\ display_tz' = tz
    /\ request' = [location |-> location,
                   found |-> IF location = NONE THEN <<>> ELSE <<tz # NONE>>,
                   owner |-> active]
    /\ IF location # NONE /\ tz = NONE
       THEN /\ calls' = <<>>
            /\ UNCHANGED <<show_time, displayed_time, gui_time_string, active,
                           lost, window>>
       ELSE /\ show_time' = TRUE
            /\ Apply(update_display(TRUE, TRUE, tz))
            /\ Ran(TRUE, TRUE, answering_query)

\* lines 369-385: handle_show_time
ShowTime ==
    \E location \in Locations, r \in Answers :
        /\ ShowTimeIn(location, IF location = NONE THEN NONE ELSE Resolved(location, r))
        /\ lastOp' = "handle_show_time"
        /\ UNCHANGED <<envVars, resolveVars, answering_query, now, flow, threadVars>>

\* the wall clock reaches the next minute
ClockAdvance ==
    /\ now' = (now + 1) % ClockSize
    /\ calls' = <<>>
    /\ lastOp' = "clock"
    /\ Elsewhere
    /\ UNCHANGED <<envVars, resolveVars, displayed_time, show_time, answering_query,
                   display_tz, active, gui_time_string, flow>>

\* another consumer takes or leaves the display (display_manager is shared)
RegistryChange ==
    \E owner \in Owners :
        /\ owner # active
        /\ active' = owner
        /\ calls' = <<>>
        /\ lastOp' = "registry"
        /\ lost' = (lost \/ (owner = "OtherSkill" /\ displayed_time # <<>>))
        /\ request' = NoRequest
        /\ UNCHANGED <<envVars, resolveVars, displayed_time, show_time, answering_query,
                       display_tz, gui_time_string, now, flow, threadVars, window>>

\* the user changes the "show_time" setting on the web (lines 45-47)
SettingsChange ==
    /\ show_time' = ~show_time
    /\ calls' = <<>>
    /\ lastOp' = "settings"
    /\ Elsewhere
    /\ UNCHANGED <<envVars, resolveVars, displayed_time, answering_query, display_tz,
                   active, gui_time_string, now, flow>>

Init ==
    /\ all_timezones = PytzCatalog
    /\ timezones = AliasGood
    /\ InitCall
    /\ InitDisplay
    /\ InitThreads
    /\ InitHistory
    /\ platform \in Platforms
    /\ lastOp = "init"

\* no query handler is in flight: the skill answers one query at a time
NoFlow == flow.pc = "idle" /\ date_flow.pc = "idle"

AskTime == NoFlow /\ QueryTimeStart
AskFutureTime == NoFlow /\ QueryFutureTimeStart
AskDate == NoFlow /\ QueryDateStart

Next ==
    \/ Tick
    \/ AskTime
    \/ QueryTimeEnd
    \/ AskFutureTime
    \/ QueryFutureTimeEnd
    \/ AskDate
    \/ QueryDateEnd
    \/ TimeFlowFails
    \/ DateFlowFails
    \/ ShowTime
    \/ ClockAdvance
    \/ RegistryChange
    \/ SettingsChange

Spec == Init /\ [][Next]_vars

\* the handlers' sleeps end: a handler that has not failed goes on to its
\* last lines
SpecFair ==
    /\ Spec
    /\ WF_vars(QueryTimeEnd)
    /\ WF_vars(QueryFutureTimeEnd)
    /\ WF_vars(QueryDateEnd)

-----------------------------------------------------------------------------
(* The handlers and update_display as the threads they run in: the guard   *)
(* of update_display and its body are separate steps, and a date query may *)
(* arrive while a time query is being answered.                            *)

\* lines 265-266: update_display reads answering_query
TickGuard ==
    /\ tick = "idle"
    /\ tick' = IF answering_query THEN "idle" ELSE "passed"
    /\ calls' = <<>>
    /\ lastOp' = "update_display_guard"
    /\ request' = NoRequest
    /\ UNCHANGED <<envVars, resolveVars, displayed_time, show_time, answering_query,
                   display_tz, active, gui_time_string, now, flow, platform,
                   date_flow, lost, window>>

\* lines 268-291: update_display past its guard
TickBody ==
    /\ tick = "passed"
    /\ tick' = "idle"
    /\ Apply(update_body(FALSE, show_time, get_display_current_time(NONE, display_tz, NONE)))
    /\ lastOp' = "update_display"
    /\ Ran(FALSE, show_time, FALSE)
    /\ request' = NoRequest
    /\ UNCHANGED <<envVars, resolveVars, show_time, answering_query, display_tz,
                   now, flow, platform, date_flow>>

NextThreads ==
    \/ TickGuard
    \/ TickBody
    \/ QueryTimeStart
    \/ QueryTimeEnd
    \/ QueryDateStart
    \/ QueryDateEnd
    \/ ClockAdvance
    \/ RegistryChange
    \/ SettingsChange

SpecThreads == Init /\ [][NextThreads]_vars

-----------------------------------------------------------------------------
(* Properties of the display arbitration, checked under Spec *)

\* the draw calls and the erase calls among the calls of a step
Draws(cs)  == Cardinality({i \in 1..Len(cs) : cs[i].op = "draw"})
Erases(cs) == Cardinality({i \in 1..Len(cs) : cs[i].op = "erase"})

\* the idle text a tick would compute now
IdleText == get_display_current_time(NONE, display_tz, NONE)

\* the step is one run of the periodic update_display()
TickStep == lastOp' = "update_display"

\* C1: while answering_query (exclusiveHold) is true, a periodic tick issues
\* no draw and no erase call and changes no field of the display state,
\* however often it runs; and the tick that follows the end of a query
\* window draws again when the idle display is enabled and the display free.
C1_Exclusivity ==
    [][ /\ (TickStep /\ answering_query) =>
              /\ Draws(calls') = 0
              /\ Erases(calls') = 0
              /\ calls' = <<>>
              /\ displayed_time' = displayed_time
              /\ show_time' = show_time
              /\ answering_query' = answering_query
        /\ (TickStep /\ lastOp = "handle_query_time_end" /\ show_time /\ is_display_idle) =>
              /\ ~answering_query
              /\ calls' = <<Draw(IdleText), Release>>
      ]_vars

\* a tick has run inside a query window in which it would otherwise have drawn
C1_Witness ==
    /\ lastOp = "update_display"
    /\ answering_query
    /\ flow.pc = "dwell"
    /\ show_time
    /\ is_display_idle
    /\ displayed_time # IdleText

\* C2: with the idle display enabled, no exclusive hold and the display
\* free, a tick draws exactly once when the computed text differs from
\* displayed_time (lastShownText) and not at all when it is the same; so of
\* two consecutive ticks with the same text the second never draws, and the
\* two together draw at most once.
C2_Idempotence ==
    [][ (TickStep /\ show_time /\ ~answering_query /\ is_display_idle) =>
           /\ Draws(calls') = (IF displayed_time # IdleText THEN 1 ELSE 0)
           /\ displayed_time' = IdleText
           /\ (lastOp = "update_display" =>
                  /\ Draws(calls') = 0
                  /\ Draws(calls) + Draws(calls') <= 1)
      ]_vars

\* a tick has found the text it had drawn before and has drawn nothing
C2_Witness ==
    /\ lastOp = "update_display"
    /\ show_time
    /\ ~answering_query
    /\ is_display_idle
    /\ displayed_time = IdleText
    /\ displayed_time # <<>>
    /\ calls = <<>>

\* C3: a tick run with the idle display enabled and no exclusive hold, while
\* the registry reports a non-empty, foreign owner, issues no draw call and
\* leaves displayed_time (lastShownText) empty.
C3_Conflict ==
    [][ (TickStep /\ show_time /\ ~answering_query /\ active # "" /\ active # "TimeSkill") =>
           /\ Draws(calls') = 0
           /\ calls' = <<>>
           /\ displayed_time' = <<>>
           /\ active' = active
      ]_vars

\* a tick has run against a foreign owner, after the idle text had been shown
C3_Witness ==
    /\ lastOp = "update_display"
    /\ show_time
    /\ ~answering_query
    /\ active = "OtherSkill"
    /\ displayed_time = <<>>
    /\ gui_time_string = IdleText

\* C10: a tick run with no exclusive hold and the idle display disabled
\* issues no draw call; it issues an erase followed by a registry release
\* exactly when displayed_time is non-empty and the display is free, and no
\* call at all otherwise; displayed_time is empty after it in every case.
C10_DisabledTick ==
    [][ (TickStep /\ ~answering_query /\ ~show_time) =>
           /\ Draws(calls') = 0
           /\ (calls' = <<Erase, Release>>) <=> (displayed_time # <<>> /\ is_display_idle)
           /\ (calls' # <<Erase, Release>>) => (calls' = <<>> /\ active' = active)
           /\ displayed_time' = <<>>
      ]_vars

\* a disabled tick has erased the idle text and released the display
C10_Witness ==
    /\ lastOp = "update_display"
    /\ ~show_time
    /\ ~answering_query
    /\ calls = <<Erase, Release>>
    /\ displayed_time = <<>>

-----------------------------------------------------------------------------
(* Properties of get_timezone, checked under SpecResolve *)

\* get_timezone has been called: locale, response, result, asked and best
\* are those of the call
Called == lastOp = "get_timezone"

\* the three lookups that precede the scan, as the call's query meets them
KnownHit == pytz_timezone(all_timezones, astral_timezone(locale)) # RAISE
ExactHit == pytz_timezone(all_timezones, locale) # RAISE
AliasKeyHit == AliasHits(timezones, locale) # {}

\* no earlier lookup has answered, so the scan of lines 113-125 has run
ReachedScan == Called /\ ~KnownHit /\ ~ExactHit /\ ~AliasKeyHit

\* the score of the catalog's i-th entry against the call's query
ScoreIn(i) == ScoreMemo[all_timezones[i]][Lower(locale)]

\* the entries that hold the catalog's maximum score, and those above 0.8
TopEntries ==
    {i \in 1..Len(all_timezones) :
        \A j \in 1..Len(all_timezones) : ScoreGeq(ScoreIn(i), ScoreIn(j))}
SolidEntries == {i \in 1..Len(all_timezones) : ScoreGt(ScoreIn(i), Solid)}

\* the best score is in (0.3, 0.8]
Moderate ==
    /\ ReachedScan
    /\ best # <<>>
    /\ ScoreGt(best[1].pct, Maybe)
    /\ ~ScoreGt(best[1].pct, Solid)

\* the phrase expected for each catalog name: its segments in reverse order,
\* underscores as spaces, and a space at every lower-to-upper case boundary
SpokenName ==
    [name \in CatalogNames |->
        CASE name = "America/Denver" -> "Denver America"
          [] name = "America/North_Dakota/Center" -> "Center North Dakota America"
          [] name = "America/North_Dakota/New_Salem" -> "New Salem North Dakota America"
          [] name = "Asia/Shanghai" -> "Shanghai Asia"
          [] name = "Australia/Melbourne" -> "Melbourne Australia"
          [] name = "Australia/Sydney" -> "Sydney Australia"
          [] name = "Australia/Victoria" -> "Victoria Australia"
          [] name = "Canada/Eastern" -> "Eastern Canada"
          [] name = "Chile/EasterIsland" -> "Easter Island Chile"
          [] name = "Cuba" -> "Cuba"
          [] name = "Indian/Mahe" -> "Mahe Indian"
          [] name = "US/Eastern" -> "Eastern US"]

\* the answer decides a confirmed candidate: it is returned on "yes" only
AnswerDecides ==
    /\ Len(asked) = 1
    /\ (response = "yes") => (result = best[1].name)
    /\ (response # "yes") => (result = NONE)

\* C4 (as the code behaves): for every query that reaches the scan with a
\* best score in (0.3, 0.8], get_timezone asks for exactly one confirmation,
\* with the candidate's segments in reverse order joined by spaces,
\* underscores replaced by spaces and names in mixed case split into their
\* words; it returns the candidate iff the answer is "yes", None otherwise.
C4_Confirmation ==
    Moderate => (AnswerDecides /\ asked = <<SpokenName[best[1].name]>>)

\* a mixed-case candidate has been offered and accepted
C4_Witness ==
    /\ Moderate
    /\ locale = "island"
    /\ response = "yes"
    /\ asked = <<"Easter Island Chile">>
    /\ result = "Chile/EasterIsland"

\* C4 as stated: the phrase is the identifier's segments in reverse order
\* joined by spaces, with underscores replaced by spaces and nothing else.
C4_AsStated ==
    Moderate => (AnswerDecides /\ asked = <<SpeakableNoCamel(best[1].name)>>)

\* C5 (as the code behaves): for every query that no earlier lookup answers
\* and that scores above 0.8 against exactly one catalog entry, get_timezone
\* returns that entry and asks for no confirmation.
C5_SolidMatch ==
    (ReachedScan /\ Cardinality(SolidEntries) = 1) =>
        /\ result = all_timezones[Least(SolidEntries)]
        /\ asked = <<>>

\* the scan alone has settled a query
C5_Witness ==
    /\ ReachedScan
    /\ locale = "sydney"
    /\ Cardinality(SolidEntries) = 1
    /\ result = "Australia/Sydney"
    /\ asked = <<>>

\* C5 as stated: every query that scores above 0.8 against exactly one
\* catalog entry gets that entry, whatever the earlier lookups found.
C5_AsStated ==
    (Called /\ Cardinality(SolidEntries) = 1) =>
        /\ result = all_timezones[Least(SolidEntries)]
        /\ asked = <<>>

\* C6: for every query that matches no known place, no catalog identifier
\* and no alias key, and whose best score is at most 0.3 or whose catalog is
\* empty, get_timezone returns None and asks for no confirmation.
C6_NoMatch ==
    (ReachedScan /\ \A i \in 1..Len(all_timezones) : ~ScoreGt(ScoreIn(i), Maybe)) =>
        /\ result = NONE
        /\ asked = <<>>

\* the best score is exactly 0.3 and nothing is asked
C6_Witness ==
    /\ ReachedScan
    /\ locale = "timbuktu"
    /\ all_timezones = SmallCatalog
    /\ best # <<>>
    /\ ScoreGeq(best[1].pct, Maybe)
    /\ ~ScoreGt(best[1].pct, Maybe)
    /\ result = NONE
    /\ asked = <<>>

\* C7: when two or more catalog entries share the maximum score, the scan
\* selects the one that comes last in the catalog's order, and that one is
\* what get_timezone returns or offers for confirmation.
C7_TieBreak ==
    (ReachedScan /\ Cardinality(TopEntries) >= 2) =>
        /\ best = <<[pct |-> ScoreIn(Greatest(TopEntries)),
                     name |-> all_timezones[Greatest(TopEntries)]]>>
        /\ result \in {NONE, all_timezones[Greatest(TopEntries)]}
        /\ ScoreGt(ScoreIn(Greatest(TopEntries)), Solid) =>
               result = all_timezones[Greatest(TopEntries)]
        /\ asked \in {<<>>, <<SpokenName[all_timezones[Greatest(TopEntries)]]>>}

\* Canada/Eastern and US/Eastern tie at the top and the later one is returned
C7_Witness ==
    /\ ReachedScan
    /\ locale = "eastern"
    /\ all_timezones = PytzCatalog
    /\ TopEntries = {8, 12}
    /\ result = "US/Eastern"

\* the catalog identifiers and the alias keys that equal the query q when
\* case is ignored
IdMatches(q) == {i \in 1..Len(all_timezones) : Lower(all_timezones[i]) = Lower(q)}
KeyMatches(q) == {k \in 1..Len(timezones) : Lower(timezones[k][1]) = Lower(q)}

\* the first alias key equal to q maps to a catalog identifier once stripped
AliasMaps(q) ==
    /\ KeyMatches(q) # {}
    /\ IdMatches(Strip(timezones[Least(KeyMatches(q))][2])) # {}

\* what the identifier and alias lookups map the query q to
Mapped(q) ==
    IF IdMatches(q) # {} THEN all_timezones[Least(IdMatches(q))]
    ELSE Strip(timezones[Least(KeyMatches(q))][2])

ScoreOfLast(normalized, target) ==
    IF Len(normalized) = 1 THEN fuzzy_match(normalized[1], target)
    ELSE ScoreMax(fuzzy_match(normalized[Len(normalized)], target),
            ScoreMax(fuzzy_match(normalized[Len(normalized) - 1] \o " "
                                    \o normalized[Len(normalized)], target),
                     fuzzy_match(normalized[Len(normalized)] \o " "
                                    \o normalized[Len(normalized) - 1], target)))

\* those scores for every catalog name and query
ScoreOfLastMemo ==
    [name \in CatalogNames |->
        [target \in Targets |-> ScoreOfLast(Normalized(name), target)]]

\* C9 as stated: every record's score is the maximum of the similarity to
\* its last segment and to the two compounds of its last two segments, so
\* the best score of a scan is the greatest such score; and "north dakota"
\* against America/North_Dakota/Center scores at most 0.8 and is confirmed
\* with the phrase "Center North Dakota America".
C9_AsStated ==
    /\ (ReachedScan /\ all_timezones # <<>>) =>
          /\ \A i \in 1..Len(all_timezones) :
                ScoreGeq(best[1].pct, ScoreOfLastMemo[all_timezones[i]][Lower(locale)])
          /\ \E i \in 1..Len(all_timezones) :
                best[1].pct = ScoreOfLastMemo[all_timezones[i]][Lower(locale)]
    /\ (Called /\ locale = "north dakota" /\ all_timezones = SmallCatalog) =>
          /\ ~ScoreGt(best[1].pct, Solid)
          /\ asked = <<"Center North Dakota America">>

\* C12 as stated: an alias entry whose value is no timezone identifier is
\* skipped, so get_timezone never ends in an error: with the whole catalog
\* at hand it returns a timezone or None.
C12_AsStated == (Called /\ all_timezones = PytzCatalog) => result # RAISE

\* what the known-place lookup and the alias lookup give for the call's query
KnownZone == pytz_timezone(all_timezones, astral_timezone(locale))
AliasZone == AliasLookup(all_timezones, timezones, locale)

\* C14: get_timezone tries the known places, then the catalog identifiers,
\* then the alias table, then the scan, and the first lookup that matches
\* decides the call: no later lookup, scan or confirmation takes place after
\* it, so a query that is both a known place and an alias key gets the known
\* place's timezone.
C14_Ordering ==
    Called =>
        /\ KnownHit => (result = KnownZone /\ asked = <<>> /\ best = <<>>)
        /\ (~KnownHit /\ ExactHit) =>
              /\ result = pytz_timezone(all_timezones, locale)
              /\ asked = <<>>
              /\ best = <<>>
        /\ (~KnownHit /\ ~ExactHit /\ AliasKeyHit) =>
              (result = AliasZone /\ asked = <<>> /\ best = <<>>)
        /\ ReachedScan =>
              /\ best = ScanFrom(all_timezones, 1, <<>>, Lower(locale))
              /\ result \in {NONE} \cup {all_timezones[i] : i \in 1..Len(all_timezones)}

\* "victoria" is a known place and an alias key, and the place has decided
C14_Witness ==
    /\ Called
    /\ locale = "victoria"
    /\ KnownHit
    /\ AliasKeyHit
    /\ AliasZone = "Australia/Melbourne"
    /\ result = "Indian/Mahe"
    /\ asked = <<>>

-----------------------------------------------------------------------------
(* Properties of the query handlers, checked under Spec *)

\* the step is the end of a query window: the last lines of a handler
EndStep ==
    lastOp' \in {"handle_query_time_end", "handle_query_future_time_end",
                 "handle_query_date_end"}

\* C11 as stated: the end of every query window, in the time, future-time
\* and date handlers alike, clears answering_query and displayed_time and
\* issues an erase of the display followed by a release of the display in
\* the registry.
C11_AsStated ==
    [][ EndStep =>
           /\ answering_query' = FALSE
           /\ displayed_time' = <<>>
           /\ calls' = <<Erase, Release>>
      ]_vars

\* the step is a handler's start on a request whose location get_timezone
\* has not found, in one of the lookups the handler made for it
NotFoundStep ==
    /\ lastOp' \in {"handle_query_time", "handle_query_future_time",
                    "handle_query_date", "handle_show_time"}
    /\ request'.location # NONE
    /\ \E i \in 1..Len(request'.found) : ~request'.found[i]

\* C13 as stated: whenever get_timezone returns None for the location of a
\* time, future-time, date or show-time request, the handler issues no draw
\* and no erase, does not set answering_query, and leaves displayed_time and
\* the show_time setting as they were.
C13_AsStated ==
    [][ NotFoundStep =>
           /\ calls' = <<>>
           /\ answering_query' = answering_query
           /\ displayed_time' = displayed_time
           /\ show_time' = show_time
      ]_vars

\* C16 as stated: when another skill has owned the display at any moment
\* since an idle draw, even if it took and left it between two runs of
\* update_display, displayed_time is empty by the first later periodic run
\* that finds the display free, and that run draws the idle text again.
C16_AsStated ==
    [][ (TickStep /\ lost /\ show_time /\ ~answering_query /\ is_display_idle) =>
           /\ displayed_time = <<>>
           /\ Draws(calls') = 1
      ]_vars

\* C17 as stated: every query window ends; once a handler has set
\* answering_query it is eventually cleared again, also when a call inside
\* the window fails.
C17_AsStated == answering_query ~> ~answering_query

\* C18: after a handler has ended its query window, the first run of
\* update_display that finds the idle display enabled, the display free and
\* no window open issues exactly one draw, of the current idle text, and
\* releases the display; displayed_time was empty until then, so the draw
\* happens even when the text is the one shown before the window.
C18_FreshRedraw ==
    [][ (TickStep /\ window.fresh = "yes" /\ show_time /\ is_display_idle
            /\ ~answering_query) =>
           /\ displayed_time = <<>>
           /\ calls' = <<Draw(IdleText), Release>>
           /\ displayed_time' = IdleText
      ]_vars

\* the run after a window has drawn again the text shown before the window
C18_Witness ==
    /\ lastOp = "update_display"
    /\ window.fresh = "redrawn"
    /\ window.before # <<>>
    /\ calls = <<Draw(window.before), Release>>
    /\ displayed_time = window.before

\* the step is a handle_show_time whose location was found, or absent
ShowStep ==
    /\ lastOp' = "handle_show_time"
    /\ (request'.location = NONE \/ request'.found = <<TRUE>>)

\* C19: a show-time request with a location that is found, or with none,
\* enables the idle display and runs update_display(True): with no query
\* window open it draws the idle text of the requested timezone and
\* releases the display when the text differs from displayed_time, whoever
\* owns the display, and draws nothing when the text is the same; with a
\* window open it draws nothing.
C19_ForcedUpdate ==
    [][ ShowStep =>
           /\ show_time'
           /\ answering_query => (calls' = <<>> /\ displayed_time' = displayed_time)
           /\ (~answering_query /\ displayed_time # IdleText') =>
                 /\ calls' = <<Draw(IdleText'), Release>>
                 /\ displayed_time' = IdleText'
                 /\ active' = ""
           /\ (~answering_query /\ displayed_time = IdleText') =>
                 (calls' = <<>> /\ displayed_time' = displayed_time /\ active' = active)
      ]_vars

\* a forced update has drawn over a display that another skill owned
C19_Witness ==
    /\ lastOp = "handle_show_time"
    /\ request.owner = "OtherSkill"
    /\ request.location = "sydney"
    /\ show_time
    /\ ~answering_query
    /\ calls = <<Draw(IdleText), Release>>
    /\ active = ""

-----------------------------------------------------------------------------
(* Properties of the threads, checked under SpecThreads *)

\* the handlers that are inside their window
InFlight ==
    (IF flow.pc = "idle" THEN {} ELSE {"time"})
        \cup (IF date_flow.pc = "idle" THEN {} ELSE {"date"})

\* C15 as stated: with one query handler running beside the periodic
\* update_display, no run of update_display issues a draw or an erase
\* between the handler's setting answering_query and its clearing it, even
\* a run that read the flag just before the handler set it.
C15_AsStated ==
    [][ (lastOp' = "update_display" /\ answering_query /\ Cardinality(InFlight) = 1) =>
           (Draws(calls') = 0 /\ Erases(calls') = 0)
      ]_vars

\* C20 as stated: when the windows of two query handlers overlap,
\* answering_query stays true until the last of them has finished, so the
\* flag is set in every state in which a handler is inside its window.
C20_AsStated == (InFlight # {}) => answering_query

=============================================================================
